---- MODULE Spec2Model ----
(***************************************************************************)
(* The investment dashboard of app.py and main.py: one Streamlit script    *)
(* run = read the sheet, clean it, derive AGE and AGE GROUP, apply the     *)
(* sidebar selection, compute the tables behind the charts.                *)
(*                                                                         *)
(* A cell of the sheet is a tagged record: NaN (missing), Num(n), Str(s)   *)
(* or Date(y, mo, d).  Text that the code inspects character by character  *)
(* (the month, a textual DOB, a textual number) is a tuple of one-char     *)
(* strings; labels that are only compared (LAND) are plain strings.        *)
(* A data frame is a sequence of rows, a row a record keyed by column.     *)
(*                                                                         *)
(* pandas is modelled as of the 2.x line the scripts were written for:     *)
(* grouping by a categorical column keeps every category                   *)
(* (observed=False) and drops rows whose key is missing (dropna=True).     *)
(***************************************************************************)
EXTENDS Integers, Sequences, FiniteSets, TLC

NaN == [t |-> "nan"]
Num(n) == [t |-> "num", n |-> n]
Str(s) == [t |-> "str", s |-> s]
Date(y, mo, d) == [t |-> "date", y |-> y, mo |-> mo, d |-> d]

isna(c) == c.t = "nan"
notna(c) == ~isna(c)

\* -------------------------------------------------------------- sequences

RECURSIVE SeqSum(_)
SeqSum(s) == IF s = <<>> THEN 0 ELSE Head(s) + SeqSum(Tail(s))

Range(s) == {s[i] : i \in 1..Len(s)}

\* Series.unique(): the distinct values in order of first appearance
RECURSIVE unique(_)
unique(s) ==
    IF s = <<>> THEN <<>>
    ELSE LET init == unique(SubSeq(s, 1, Len(s) - 1))
             last == s[Len(s)]
         IN IF last \in Range(init) THEN init ELSE Append(init, last)

Column(df, c) == [i \in 1..Len(df) |-> df[i][c]]

\* ------------------------------------------------------------------ text

LowerChars == <<"a","b","c","d","e","f","g","h","i","j","k","l","m",
                "n","o","p","q","r","s","t","u","v","w","x","y","z">>
UpperChars == <<"A","B","C","D","E","F","G","H","I","J","K","L","M",
                "N","O","P","Q","R","S","T","U","V","W","X","Y","Z">>
DigitChars == <<"0","1","2","3","4","5","6","7","8","9">>
Whitespace == {" ", "\t", "\n", "\r"}

IndexOf(ch, alphabet) ==
    IF \E i \in 1..Len(alphabet) : alphabet[i] = ch
    THEN CHOOSE i \in 1..Len(alphabet) : alphabet[i] = ch
    ELSE 0

\* str.upper() on one character
UpperChar(ch) ==
    IF IndexOf(ch, LowerChars) > 0 THEN UpperChars[IndexOf(ch, LowerChars)] ELSE ch

\* Series.str.upper()
upper(s) == [i \in 1..Len(s) |-> UpperChar(s[i])]

RECURSIVE lstrip(_)
lstrip(s) ==
    IF s # <<>> /\ Head(s) \in Whitespace THEN lstrip(Tail(s)) ELSE s

RECURSIVE rstrip(_)
rstrip(s) ==
    IF s # <<>> /\ s[Len(s)] \in Whitespace
    THEN rstrip(SubSeq(s, 1, Len(s) - 1)) ELSE s

\* Series.str.strip()
strip(s) == rstrip(lstrip(s))

\* astype(str) on a month cell: a missing value becomes the text "nan"
astype_str(c) == IF isna(c) THEN <<"n","a","n">> ELSE c.s

IsDigits(s) == s # <<>> /\ \A i \in 1..Len(s) : IndexOf(s[i], DigitChars) > 0

RECURSIVE DigitsValue(_)
DigitsValue(s) ==
    IF s = <<>> THEN 0
    ELSE 10 * DigitsValue(SubSeq(s, 1, Len(s) - 1)) + (IndexOf(s[Len(s)], DigitChars) - 1)

DaysIn(y, mo) ==
    IF mo \in {4, 6, 9, 11} THEN 30
    ELSE IF mo = 2
         THEN IF (y % 4 = 0 /\ y % 100 # 0) \/ y % 400 = 0 THEN 29 ELSE 28
         ELSE 31

\* pd.to_datetime(errors='coerce') on one cell: a datetime cell is kept, a
\* text "YYYY-MM-DD" naming a calendar day is parsed, anything else is NaT
to_datetime(c) ==
    IF c.t = "date" THEN c
    ELSE IF c.t = "str" /\ Len(c.s) = 10 /\ c.s[5] = "-" /\ c.s[8] = "-"
            /\ IsDigits(SubSeq(c.s, 1, 4)) /\ IsDigits(SubSeq(c.s, 6, 7))
            /\ IsDigits(SubSeq(c.s, 9, 10))
         THEN LET y == DigitsValue(SubSeq(c.s, 1, 4))
                  mo == DigitsValue(SubSeq(c.s, 6, 7))
                  d == DigitsValue(SubSeq(c.s, 9, 10))
              IN IF mo \in 1..12 /\ d >= 1 /\ d <= DaysIn(y, mo)
                 THEN Date(y, mo, d) ELSE NaN
         ELSE NaN

\* pd.to_numeric(errors='coerce') on one cell
to_numeric(c) ==
    IF c.t = "num" THEN c
    ELSE IF c.t = "str" /\ IsDigits(c.s) THEN Num(DigitsValue(c.s))
    ELSE NaN

\* ------------------------------------------------------- cleaning (l.16-34)

columns_to_keep == <<"DOB", "INVESTMENT_YEAR", "INVESTMENT_MONTH", "LAND", "UNIT", "AMOUNT">>

reference_year == 2025

\* the months in calendar order
month_order_calendar ==
    << <<"J","A","N","U","A","R","Y">>, <<"J","U","L","Y">>, <<"A","U","G","U","S","T">>,
       <<"S","E","P","T","E","M","B","E","R">>, <<"O","C","T","O","B","E","R">>,
       <<"N","O","V","E","M","B","E","R">>, <<"D","E","C","E","M","B","E","R">> >>

month_order == << <<"J","U","L","Y">>, <<"A","U","G","U","S","T">>,
                  <<"S","E","P","T","E","M","B","E","R">>, <<"O","C","T","O","B","E","R">>,
                  <<"N","O","V","E","M","B","E","R">>, <<"D","E","C","E","M","B","E","R">>,
                  <<"J","A","N","U","A","R","Y">> >>

bins == <<18, 30, 40, 50, 60, 70, 100>>
labels == <<"18-29", "30-39", "40-49", "50-59", "60-69", "70+">>

\* df[c] = v on one row (creates the column when it is new)
Assign(r, c, v) == [k \in DOMAIN r \cup {c} |-> IF k = c THEN v ELSE r[k]]

\* l.19: df['DOB'] = pd.to_datetime(df['DOB'], errors='coerce')
ParseDob(df) == [i \in 1..Len(df) |-> Assign(df[i], "DOB", to_datetime(df[i].DOB))]

\* l.27, l.28: df[c] = pd.to_numeric(df[c], errors='coerce')
CoerceNumeric(df, c) == [i \in 1..Len(df) |-> Assign(df[i], c, to_numeric(df[i][c]))]

\* df[columns_to_keep].copy()
SelectColumns(df) == [i \in 1..Len(df) |-> [c \in Range(columns_to_keep) |-> df[i][c]]]

\* df.dropna(subset=...)
dropna_subset(df, subset) == SelectSeq(df, LAMBDA r : \A c \in subset : notna(r[c]))

\* null removal over the four parsed columns only
dropna_parsed(df) ==
    SelectSeq(df, LAMBDA r : \A c \in {"DOB", "INVESTMENT_MONTH", "UNIT", "AMOUNT"} : notna(r[c]))

\* df.dropna(): a row goes when any of its columns is missing
dropna(df) == SelectSeq(df, LAMBDA r : \A c \in DOMAIN r : notna(r[c]))

\* l.21: AGE = 2025 - DOB.year
WithAge(df) ==
    [i \in 1..Len(df) |->
        Assign(df[i], "AGE",
               IF notna(df[i].DOB) THEN Num(reference_year - df[i].DOB.y) ELSE NaN)]

\* the month uppercased but not trimmed
NormalizeMonth_no_strip(c) == Str(upper(astype_str(c)))

\* l.24: astype(str).str.strip().str.upper()
NormalizeMonth(c) == Str(upper(strip(astype_str(c))))

NormalizeMonths(df) ==
    [i \in 1..Len(df) |->
        Assign(df[i], "INVESTMENT_MONTH", NormalizeMonth(df[i].INVESTMENT_MONTH))]

\* l.25: df[df['INVESTMENT MONTH'].isin(month_order)]
MonthIsin(df) == SelectSeq(df, LAMBDA r : r.INVESTMENT_MONTH.s \in Range(month_order))

\* l.26: pd.Categorical(values, categories=month_order): a value outside the
\* categories becomes missing
Categorical(c) == IF notna(c) /\ c.s \in Range(month_order) THEN c ELSE NaN

CategoricalMonths(df) ==
    [i \in 1..Len(df) |->
        Assign(df[i], "INVESTMENT_MONTH", Categorical(df[i].INVESTMENT_MONTH))]

\* pd.cut with its default right=True: bins closed on the right
cut_right_closed(age) ==
    IF \E i \in 1..6 : bins[i] < age.n /\ age.n <= bins[i + 1]
    THEN Str(labels[CHOOSE i \in 1..6 : bins[i] < age.n /\ age.n <= bins[i + 1]])
    ELSE NaN

\* l.33: pd.cut(AGE, bins, labels, right=False) on one value
cut(age) ==
    IF \E i \in 1..Len(labels) : bins[i] <= age.n /\ age.n < bins[i + 1]
    THEN Str(labels[CHOOSE i \in 1..Len(labels) : bins[i] <= age.n /\ age.n < bins[i + 1]])
    ELSE NaN

WithAgeGroup(df) == [i \in 1..Len(df) |-> Assign(df[i], "AGE_GROUP", cut(df[i].AGE))]

\* l.34: df[df["INVESTMENT MONTH"].notna()]
MonthNotna(df) == SelectSeq(df, LAMBDA r : notna(r.INVESTMENT_MONTH))

\* l.16-29 of either script
Clean(sheet) ==
    LET d1 == dropna_subset(SelectColumns(sheet), {"DOB", "AMOUNT"})
        d2 == dropna_subset(ParseDob(d1), {"DOB"})
        d3 == WithAge(d2)
        d4 == MonthIsin(NormalizeMonths(d3))
        d5 == CategoricalMonths(d4)
        d6 == CoerceNumeric(CoerceNumeric(d5, "UNIT"), "AMOUNT")
    IN dropna(d6)

\* a null removal after the binning
Bucket_dropna(df) == dropna(MonthNotna(WithAgeGroup(df)))

\* l.31-34 of either script
Bucket(df) == MonthNotna(WithAgeGroup(df))

\* ------------------------------------------------ sidebar filters (l.36-41)

\* Series.isin(values); a missing value among the values matches missing cells
isin(c, values) == c \in values

\* an empty selection read as "no filter"
FilterApp_passthrough(df, age_groups, land_types) ==
    SelectSeq(df, LAMBDA r : /\ (age_groups = {} \/ isin(r.AGE_GROUP, age_groups))
                             /\ (land_types = {} \/ isin(r.LAND, land_types)))

\* app.py l.41
FilterApp(df, age_groups, land_types) ==
    SelectSeq(df, LAMBDA r : isin(r.AGE_GROUP, age_groups) /\ isin(r.LAND, land_types))

\* main.py l.39
FilterMain(df, year) == SelectSeq(df, LAMBDA r : r.INVESTMENT_YEAR = year)

\* sorted(...) of main.py l.38
RECURSIVE sorted(_)
sorted(S) ==
    IF S = {} THEN <<>>
    ELSE LET lo == CHOOSE x \in S : \A y \in S : x.n <= y.n
         IN <<lo>> \o sorted(S \ {lo})

\* -------------------------------------------------------------- aggregation

\* the rows of df whose categorical column key holds category cat
InGroup(df, key, cat) == SelectSeq(df, LAMBDA r : r[key] = Str(cat))

\* sum of a numeric column
ColumnSum(df, value) == SeqSum([i \in 1..Len(df) |-> df[i][value].n])

\* grouping with dropna=False: the rows with a missing key form one more group
groupby_sum_keepna(df, key, cats, value) ==
    [i \in 1..Len(cats) + 1 |->
        IF i <= Len(cats)
        THEN (key :> Str(cats[i])) @@ (value :> Num(ColumnSum(InGroup(df, key, cats[i]), value)))
        ELSE (key :> NaN) @@
             (value :> Num(ColumnSum(SelectSeq(df, LAMBDA r : isna(r[key])), value)))]

\* grouping with observed=True: only the categories that occur
groupby_sum_observed(df, key, cats, value) ==
    LET seen == SelectSeq(cats, LAMBDA c : InGroup(df, key, c) # <<>>)
    IN [i \in 1..Len(seen) |->
           (key :> Str(seen[i])) @@ (value :> Num(ColumnSum(InGroup(df, key, seen[i]), value)))]

\* df.groupby(key)[value].sum().reset_index() for a categorical key: one row
\* per category, in category order; rows with a missing key belong to no group
groupby_sum(df, key, cats, value) ==
    [i \in 1..Len(cats) |->
        (key :> Str(cats[i])) @@ (value :> Num(ColumnSum(InGroup(df, key, cats[i]), value)))]

\* Series.reindex(new_index) on a grouped result, then reset_index()
reindex(table, key, value, new_index) ==
    [i \in 1..Len(new_index) |->
        IF \E j \in 1..Len(table) : table[j][key] = Str(new_index[i])
        THEN table[CHOOSE j \in 1..Len(table) : table[j][key] = Str(new_index[i])]
        ELSE (key :> Str(new_index[i])) @@ (value :> NaN)]

\* the cell of (month m, age group g): sum of AMOUNT over the matching rows
CellSum(df, m, g) ==
    ColumnSum(InGroup(InGroup(df, "INVESTMENT_MONTH", m), "AGE_GROUP", g), "AMOUNT")

\* the same grouping with observed=True: only the months and age groups that occur
groupby_unstack_observed(df) ==
    LET ms == SelectSeq(month_order, LAMBDA m : InGroup(df, "INVESTMENT_MONTH", m) # <<>>)
        gs == SelectSeq(labels, LAMBDA g : InGroup(df, "AGE_GROUP", g) # <<>>)
    IN [index |-> ms, columns |-> gs,
        values |-> [i \in 1..Len(ms) |->
                      [j \in 1..Len(gs) |->
                          IF InGroup(InGroup(df, "INVESTMENT_MONTH", ms[i]), "AGE_GROUP", gs[j]) = <<>>
                          THEN NaN ELSE Num(CellSum(df, ms[i], gs[j]))]]]

\* df.groupby(["INVESTMENT MONTH", "AGE GROUP"])["AMOUNT"].sum().unstack()
groupby_unstack(df) ==
    [index |-> month_order, columns |-> labels,
     values |-> [i \in 1..Len(month_order) |->
                    [j \in 1..Len(labels) |-> Num(CellSum(df, month_order[i], labels[j]))]]]

\* DataFrame.fillna(fill_value) on a matrix
fillna(table, fill_value) ==
    [table EXCEPT !.values =
        [i \in DOMAIN table.values |->
            [j \in DOMAIN table.values[i] |->
                IF isna(table.values[i][j]) THEN Num(fill_value) ELSE table.values[i][j]]]]

\* df.pivot_table(index="INVESTMENT MONTH", columns="AGE GROUP", values="AMOUNT",
\*                aggfunc="sum", fill_value=0)
pivot_table(df) == fillna(groupby_unstack(df), 0)

\* DataFrame.reindex(columns=new_columns) on a matrix
reindex_columns(table, new_columns) ==
    [index |-> table.index, columns |-> new_columns,
     values |-> [i \in DOMAIN table.values |->
                    [j \in 1..Len(new_columns) |->
                        IF \E k \in 1..Len(table.columns) : table.columns[k] = new_columns[j]
                        THEN table.values[i][CHOOSE k \in 1..Len(table.columns) :
                                                table.columns[k] = new_columns[j]]
                        ELSE NaN]]]

\* the categories of cats that occur in column key of df, in category order
Observed(df, key, cats) == SelectSeq(cats, LAMBDA c : InGroup(df, key, c) # <<>>)

\* pd.crosstab(df["INVESTMENT MONTH"], df["AGE GROUP"]): counts; with the
\* default dropna=True a month or an age group with no counted row is left out
crosstab(df) ==
    LET counted == SelectSeq(df, LAMBDA r : notna(r.INVESTMENT_MONTH) /\ notna(r.AGE_GROUP))
        idx == Observed(counted, "INVESTMENT_MONTH", month_order)
        cols == Observed(counted, "AGE_GROUP", labels)
    IN [index |-> idx, columns |-> cols,
        values |-> [i \in 1..Len(idx) |->
                      [j \in 1..Len(cols) |->
                          Num(Len(InGroup(InGroup(counted, "INVESTMENT_MONTH", idx[i]),
                                          "AGE_GROUP", cols[j])))]]]

\* Series.nunique()
nunique(s) == Cardinality(Range(s))

\* ------------------------------------------------------------ the program

VARIABLES
    entry,                \* which script runs: "app" or "main"
    sheet,                \* processed_investment_data.xlsx as read (l.13 / l.12)
    pc,                   \* how far the script run has come
    df,
    selected_age_groups, selected_land_types, selected_year,
    filtered_df,
    total_investment, total_units, total_investors,
    age_amount_df, age_units_df, monthly_investment,
    age_investment_pivot, age_month_ct, heatmap_data, df_grouped

vars == <<entry, sheet, pc, df, selected_age_groups, selected_land_types, selected_year,
          filtered_df, total_investment, total_units, total_investors,
          age_amount_df, age_units_df, monthly_investment,
          age_investment_pivot, age_month_ct, heatmap_data, df_grouped>>

widgets == <<selected_age_groups, selected_land_types, selected_year, filtered_df>>
charts == <<total_investment, total_units, total_investors, age_amount_df, age_units_df,
            monthly_investment, age_investment_pivot, age_month_ct, heatmap_data, df_grouped>>

\* a value not computed (yet, or by this script)
Unset == <<>>

\* ------------------------------------------------------------- the inputs

MaxRows == 2
MaxDirtyRows == 1

\* a row of the sheet; REMARKS stands for the columns outside columns_to_keep
Row(dob, year, month, land, unit, amount) ==
    [DOB |-> dob, INVESTMENT_YEAR |-> year, INVESTMENT_MONTH |-> month,
     LAND |-> land, UNIT |-> unit, AMOUNT |-> amount, REMARKS |-> NaN]

Sheets(Rows, n) == UNION {[1..k -> Rows] : k \in 0..n}

July == Str(<<" ","j","u","l","y"," ">>)
January == Str(<<"J","A","N","U","A","R","Y">>)
Residential == Str("Residential")
Commercial == Str("Commercial")

\* rows that survive cleaning, for the filters and the aggregations: ages 25,
\* 65 and 15, two months, and three kinds of purchase <<land, year, unit, amount>>
Purchases ==
    {<<Residential, Num(2024), Num(2), Num(500000)>>,
     <<Commercial, Num(2024), Num(1), Num(250000)>>,
     <<Commercial, Num(2025), Num(1), Num(250000)>>}

ValidRows ==
    {Row(dob, p[2], month, p[1], p[3], p[4]) :
        dob \in {Date(2000, 1, 1), Date(1960, 5, 5), Date(2010, 3, 3)},
        month \in {July, January},
        p \in Purchases}

\* app.py reads INVESTMENT YEAR only to drop the rows without one: its rows
\* are those of one year
ValidRows2024 == {r \in ValidRows : r.INVESTMENT_YEAR = Num(2024)}

\* one row per age around every bin edge
EdgeAges == {17, 18, 29, 30, 39, 40, 49, 50, 59, 60, 69, 70, 99, 100}

AgeRows ==
    {Row(Date(reference_year - a, 6, 15), Num(2024), January, Residential, Num(1), Num(a)) :
        a \in EdgeAges}

\* month texts: case and whitespace variants, a month outside the fiscal
\* set, a text with inner whitespace, a missing month
MonthTexts ==
    {NaN, July, January,
     Str(<<"j","u","l","y"," ">>), Str(<<"J","U","L","Y">>),
     Str(<<"M","A","R","C","H">>), Str(<<"\t","A","u","g","u","s","t","\n">>),
     Str(<<"J","U","L"," ","Y">>), Str(<<"J","U","L">>), Str(<<" "," ">>)}

MonthRows ==
    {Row(Date(1990, 7, 4), Num(2024), month, Commercial, Num(1), Num(7)) :
        month \in MonthTexts}

\* every column missing, unusable or usable, independently
DirtyRows ==
    {Row(dob, year, month, land, unit, amount) :
        dob \in {NaN, Str(<<"n","/","a">>), Str(<<"1","9","9","0","-","0","7","-","0","4">>)},
        year \in {NaN, Num(2024)},
        month \in {NaN, January},
        land \in {NaN, Commercial},
        unit \in {NaN, Str(<<"t","w","o">>), Num(2)},
        amount \in {NaN, Str(<<"x">>), Str(<<"2","5","0">>)}}

Start(script, Rows, n) ==
    /\ entry = script
    /\ sheet \in Sheets(Rows, n)
    /\ pc = "read"
    /\ df = Unset
    /\ selected_age_groups = {} /\ selected_land_types = {} /\ selected_year = NaN
    /\ filtered_df = Unset
    /\ total_investment = Unset /\ total_units = Unset /\ total_investors = Unset
    /\ age_amount_df = Unset /\ age_units_df = Unset /\ monthly_investment = Unset
    /\ age_investment_pivot = Unset /\ age_month_ct = Unset
    /\ heatmap_data = Unset /\ df_grouped = Unset

Scripts == {"app", "main"}

Init == Start("app", ValidRows2024, MaxRows) \/ Start("main", ValidRows, MaxRows)
InitAges == \E script \in Scripts : Start(script, AgeRows, MaxRows)
InitMonths == \E script \in Scripts : Start(script, MonthRows, MaxRows)
InitDirty == \E script \in Scripts : Start(script, DirtyRows, MaxDirtyRows)

\* ------------------------------------------------------------ the actions

\* l.13-29 (app.py), l.12-29 (main.py): read the sheet and clean it
CleanData ==
    /\ pc = "read"
    /\ df' = Clean(sheet)
    /\ pc' = "cleaned"
    /\ UNCHANGED <<entry, sheet, widgets, charts>>

\* l.31-34: derive AGE GROUP
DeriveAgeGroup ==
    /\ pc = "cleaned"
    /\ df' = Bucket(df)
    /\ pc' = "bucketed"
    /\ UNCHANGED <<entry, sheet, widgets, charts>>

\* app.py l.37-41: the two multiselects return any subset of their options
\* (all of them on the first run), then the filter
SidebarApp ==
    /\ entry = "app" /\ pc = "bucketed"
    /\ \E groups \in SUBSET Range(unique(Column(df, "AGE_GROUP"))),
          lands \in SUBSET Range(unique(Column(df, "LAND"))) :
            /\ selected_age_groups' = groups
            /\ selected_land_types' = lands
            /\ filtered_df' = FilterApp(df, groups, lands)
    /\ pc' = "filtered"
    /\ UNCHANGED <<entry, sheet, df, selected_year, charts>>

\* main.py l.37-39: the selectbox returns one of the sorted years (the first on
\* the first run), or None when there is none
SidebarMain ==
    /\ entry = "main" /\ pc = "bucketed"
    /\ LET years == sorted(Range(unique(Column(df, "INVESTMENT_YEAR"))))
       IN \E year \in (IF years = <<>> THEN {NaN} ELSE Range(years)) :
            /\ selected_year' = year
            /\ filtered_df' = FilterMain(df, year)
    /\ pc' = "filtered"
    /\ UNCHANGED <<entry, sheet, df, selected_age_groups, selected_land_types, charts>>

\* app.py l.43-135: the tables behind the charts
RenderApp ==
    /\ entry = "app" /\ pc = "filtered"
    /\ total_investment' = ColumnSum(filtered_df, "AMOUNT")
    /\ total_units' = ColumnSum(filtered_df, "UNIT")
    /\ total_investors' = nunique(Column(filtered_df, "DOB"))
    /\ age_amount_df' = groupby_sum(filtered_df, "AGE_GROUP", labels, "AMOUNT")
    /\ age_units_df' = groupby_sum(filtered_df, "AGE_GROUP", labels, "UNIT")
    /\ monthly_investment' = groupby_sum(filtered_df, "INVESTMENT_MONTH", month_order, "AMOUNT")
    /\ age_investment_pivot' = groupby_sum(df, "AGE_GROUP", labels, "AMOUNT")
    /\ age_month_ct' = crosstab(df)
    /\ heatmap_data' = pivot_table(df)
    /\ df_grouped' = groupby_unstack(df)
    /\ pc' = "done"
    /\ UNCHANGED <<entry, sheet, df, widgets>>

\* main.py l.41-131: the tables behind the charts
RenderMain ==
    /\ entry = "main" /\ pc = "filtered"
    /\ total_investment' = ColumnSum(filtered_df, "AMOUNT")
    /\ total_units' = ColumnSum(filtered_df, "UNIT")
    /\ total_investors' = nunique(Column(filtered_df, "DOB"))
    /\ age_amount_df' =
          reindex(groupby_sum(filtered_df, "AGE_GROUP", labels, "AMOUNT"),
                  "AGE_GROUP", "AMOUNT", labels)
    /\ age_units_df' =
          reindex(groupby_sum(filtered_df, "AGE_GROUP", labels, "UNIT"),
                  "AGE_GROUP", "UNIT", labels)
    /\ heatmap_data' = pivot_table(filtered_df)
    /\ df_grouped' = reindex_columns(groupby_unstack(filtered_df), labels)
    /\ age_month_ct' = crosstab(filtered_df)
    /\ pc' = "done"
    /\ UNCHANGED <<entry, sheet, df, widgets, monthly_investment, age_investment_pivot>>

Next ==
    \/ CleanData
    \/ DeriveAgeGroup
    \/ SidebarApp
    \/ SidebarMain
    \/ RenderApp
    \/ RenderMain

Spec == Init /\ [][Next]_vars
SpecAges == InitAges /\ [][Next]_vars
SpecMonths == InitMonths /\ [][Next]_vars
SpecDirty == InitDirty /\ [][Next]_vars

\* ------------------------------------------------------------- the claims

\* the cleaned set exists once AGE GROUP is derived
Cleaned == pc \in {"bucketed", "filtered", "done"}
Filtered == pc \in {"filtered", "done"}

\* the age of a sheet row with a datetime DOB
AgeOf(r) == 2025 - r.DOB.y

\* the bin label an age belongs to, "" when it belongs to none
BinLabel(a) ==
    IF a < 18 THEN ""
    ELSE IF a < 30 THEN "18-29"
    ELSE IF a < 40 THEN "30-39"
    ELSE IF a < 50 THEN "40-49"
    ELSE IF a < 60 THEN "50-59"
    ELSE IF a < 70 THEN "60-69"
    ELSE IF a < 100 THEN "70+"
    ELSE ""

SixLabels == <<"18-29", "30-39", "40-49", "50-59", "60-69", "70+">>

FiscalOrder == << <<"J","U","L","Y">>, <<"A","U","G","U","S","T">>,
                  <<"S","E","P","T","E","M","B","E","R">>, <<"O","C","T","O","B","E","R">>,
                  <<"N","O","V","E","M","B","E","R">>, <<"D","E","C","E","M","B","E","R">>,
                  <<"J","A","N","U","A","R","Y">> >>

\* sum of AMOUNT over the rows of a frame that satisfy P
RECURSIVE AmountOver(_, _)
AmountOver(rows, P) ==
    IF rows = <<>> THEN 0
    ELSE (IF P[Head(rows)] THEN Head(rows).AMOUNT.n ELSE 0) + AmountOver(Tail(rows), P)

HasGroup(rows) == [r \in Range(rows) |-> r.AGE_GROUP.t = "str"]
AllRows(rows) == [r \in Range(rows) |-> TRUE]
InCell(rows, m, g) ==
    [r \in Range(rows) |-> r.INVESTMENT_MONTH = Str(m) /\ r.AGE_GROUP = Str(g)]
InMonth(rows, m) == [r \in Range(rows) |-> r.INVESTMENT_MONTH = Str(m)]
InLabel(rows, g) == [r \in Range(rows) |-> r.AGE_GROUP = Str(g)]

\* the total of a one-column summary table
TableTotal(table, value) == SeqSum([i \in 1..Len(table) |-> table[i][value].n])

\* the total of a matrix
MatrixTotal(m) ==
    SeqSum([i \in 1..Len(m.values) |->
               SeqSum([j \in 1..Len(m.values[i]) |-> m.values[i][j].n])])

\* C1: for every record of the cleaned set, with age = 2025 - birth year,
\* AGE GROUP is present exactly when 18 <= age < 100, and is then the label of
\* the half-open bin holding the age (29 -> 18-29, 30 -> 30-39, 100 -> none).
C1_BinCoverage ==
    Cleaned =>
        \A i \in 1..Len(df) :
            LET a == AgeOf(df[i])
            IN /\ notna(df[i].AGE_GROUP) <=> (18 <= a /\ a < 100)
               /\ notna(df[i].AGE_GROUP) => df[i].AGE_GROUP = Str(BinLabel(a))
               /\ a = 29 => df[i].AGE_GROUP = Str("18-29")
               /\ a = 30 => df[i].AGE_GROUP = Str("30-39")
               /\ a = 100 => df[i].AGE_GROUP = NaN

C1_Witness ==
    /\ Cleaned /\ Len(df) = 2
    /\ AgeOf(df[1]) = 29 /\ df[1].AGE_GROUP = Str("18-29")
    /\ AgeOf(df[2]) = 100 /\ isna(df[2].AGE_GROUP)

\* what the month text of a sheet row must become: the fiscal label it names
\* once trimmed and uppercased, or <<>> when the row must be dropped
ExpectedMonth(c) ==
    IF c \in {July, Str(<<"j","u","l","y"," ">>), Str(<<"J","U","L","Y">>)}
    THEN <<"J","U","L","Y">>
    ELSE IF c = January THEN <<"J","A","N","U","A","R","Y">>
    ELSE IF c = Str(<<"\t","A","u","g","u","s","t","\n">>) THEN <<"A","U","G","U","S","T">>
    ELSE <<>>

ExpectedMonths(rows) ==
    SelectSeq([i \in 1..Len(rows) |-> ExpectedMonth(rows[i].INVESTMENT_MONTH)],
              LAMBDA m : m # <<>>)

\* C2: cleaning trims and uppercases INVESTMENT MONTH and keeps exactly the rows
\* whose normalized month is one of the seven fiscal labels: "july " stays as
\* JULY, "MARCH" and a missing month go, every cleaned month is a fiscal label.
C2_MonthWhitelist ==
    Cleaned =>
        /\ [i \in 1..Len(df) |-> df[i].INVESTMENT_MONTH.s] = ExpectedMonths(sheet)
        /\ \A i \in 1..Len(df) : df[i].INVESTMENT_MONTH.s \in Range(FiscalOrder)

C2_Witness ==
    /\ Cleaned /\ Len(sheet) = 2 /\ Len(df) = 1
    /\ sheet[1].INVESTMENT_MONTH = Str(<<"M","A","R","C","H">>)
    /\ sheet[2].INVESTMENT_MONTH = Str(<<"j","u","l","y"," ">>)
    /\ df[1].INVESTMENT_MONTH = Str(<<"J","U","L","Y">>)

\* C3: in app.py an empty selection of age groups (whatever the land types) or
\* of land types yields a filtered set with no rows.
C3_EmptySelection ==
    (entry = "app" /\ Filtered /\ (selected_age_groups = {} \/ selected_land_types = {}))
        => filtered_df = <<>>

C3_Witness ==
    /\ entry = "app" /\ Filtered /\ df # <<>>
    /\ selected_age_groups = {} /\ selected_land_types # {}
    /\ filtered_df = <<>>

\* C4: for any selection, the per-age-group amounts add up to the AMOUNT of
\* exactly the filtered rows that have an age group.
C4_TotalConservation ==
    pc = "done" =>
        TableTotal(age_amount_df, "AMOUNT") = AmountOver(filtered_df, HasGroup(filtered_df))

C4_Witness ==
    /\ pc = "done" /\ Len(filtered_df) = 2
    /\ isna(filtered_df[1].AGE_GROUP) /\ notna(filtered_df[2].AGE_GROUP)
    /\ TableTotal(age_amount_df, "AMOUNT") = filtered_df[2].AMOUNT.n

\* the frame a script computes its month x age-group pivots from
Pivoted == IF entry = "app" THEN df ELSE filtered_df

FullMatrix(m, rows) ==
    /\ m.index = FiscalOrder /\ m.columns = SixLabels
    /\ Len(m.values) = 7
    /\ \A i \in 1..7 :
          /\ Len(m.values[i]) = 6
          /\ \A j \in 1..6 :
                /\ m.values[i][j].t = "num"
                /\ m.values[i][j].n = AmountOver(rows, InCell(rows, FiscalOrder[i], SixLabels[j]))
                /\ (\A r \in Range(rows) : ~InCell(rows, FiscalOrder[i], SixLabels[j])[r])
                       => m.values[i][j] = Num(0)

\* C5: the month x age-group amount pivot has a cell for each of the 7 fiscal
\* months with each of the 6 labels, rows in fiscal order, columns in bin
\* order, and a pair without rows holds exactly 0.
C5_PivotZeroFill ==
    pc = "done" => FullMatrix(heatmap_data, Pivoted) /\ FullMatrix(df_grouped, Pivoted)

C5_Witness ==
    /\ pc = "done" /\ Pivoted # <<>>
    /\ heatmap_data.values[1][1] = Num(500000)
    /\ heatmap_data.values[2][6] = Num(0)
    /\ heatmap_data.values[7][1] = Num(0)

Example1 == Row(Date(2000, 1, 1), Num(2024), July, Residential, Num(2), Num(500000))
Example2 == Row(Date(1960, 5, 5), Num(2024), January, Commercial, Num(1), Num(250000))

\* C6: the amount-by-age-group table has one row per label, in bin order, 0
\* for a label without filtered rows; the two example rows have ages 25 and 65
\* and give 18-29 -> 500000, 60-69 -> 250000, every other label -> 0.
C6_AgeAmountTable ==
    pc = "done" =>
        /\ [i \in 1..Len(age_amount_df) |-> age_amount_df[i].AGE_GROUP] =
               [i \in 1..6 |-> Str(SixLabels[i])]
        /\ \A i \in 1..Len(age_amount_df) :
               /\ age_amount_df[i].AMOUNT.t = "num"
               /\ (\A r \in Range(filtered_df) : r.AGE_GROUP # Str(SixLabels[i]))
                      => age_amount_df[i].AMOUNT = Num(0)
        /\ (sheet = <<Example1, Example2>> /\ Len(filtered_df) = 2) =>
               /\ [i \in 1..2 |-> df[i].AGE] = <<Num(25), Num(65)>>
               /\ [i \in 1..6 |-> age_amount_df[i].AMOUNT.n] = <<500000, 0, 0, 0, 250000, 0>>

C6_Witness ==
    /\ pc = "done" /\ sheet = <<Example1, Example2>> /\ Len(filtered_df) = 2
    /\ age_amount_df[1].AMOUNT = Num(500000) /\ age_amount_df[5].AMOUNT = Num(250000)

\* C7: every summary table is a reduction over the filtered set only: a
\* cleaned row outside the selection contributes to none of them.
C7_FilteredOnly ==
    pc = "done" =>
        /\ FullMatrix(heatmap_data, filtered_df)
        /\ FullMatrix(df_grouped, filtered_df)
        /\ MatrixTotal(age_month_ct) = Cardinality({i \in 1..Len(filtered_df) :
                                                       notna(filtered_df[i].AGE_GROUP)})
        /\ age_investment_pivot # Unset =>
               \A i \in 1..6 : age_investment_pivot[i].AMOUNT.n =
                                  AmountOver(filtered_df, InLabel(filtered_df, SixLabels[i]))

\* C8 as stated: a row whose age is outside [18,100) is dropped by the cleaning
\* stage, so no cleaned record has such an age and none reaches a view.
C8_OutOfRangeDropped ==
    Cleaned => \A i \in 1..Len(df) : 18 <= AgeOf(df[i]) /\ AgeOf(df[i]) < 100

\* the sheet rows the current selection lets through, judged on the sheet alone
Selected(r) ==
    IF entry = "main" THEN r.INVESTMENT_YEAR = selected_year
    ELSE /\ r.LAND \in selected_land_types
         /\ (IF BinLabel(AgeOf(r)) = "" THEN NaN ELSE Str(BinLabel(AgeOf(r))))
               \in selected_age_groups

SelectedSheet == SelectSeq(sheet, Selected)

\* C8 amended: a usable row whose age is outside [18,100) stays in the cleaned
\* set, with no AGE GROUP (the null removal runs before the binning); it is
\* in no age-group table, and it counts in the key metrics and in the monthly
\* totals whenever the selection lets it through.
C8_OutOfRangeKept ==
    /\ Cleaned =>
          /\ Len(df) = Len(sheet)
          /\ \A i \in 1..Len(df) :
                /\ df[i].DOB = sheet[i].DOB
                /\ isna(df[i].AGE_GROUP) <=> BinLabel(AgeOf(sheet[i])) = ""
    /\ pc = "done" =>
          /\ total_investment = AmountOver(SelectedSheet, AllRows(SelectedSheet))
          /\ total_units = SeqSum([i \in 1..Len(SelectedSheet) |-> SelectedSheet[i].UNIT.n])
          /\ total_investors = Cardinality({r.DOB : r \in Range(SelectedSheet)})
          /\ monthly_investment # Unset =>
                TableTotal(monthly_investment, "AMOUNT") = total_investment
          /\ TableTotal(age_amount_df, "AMOUNT") =
                total_investment
                  - AmountOver(SelectedSheet,
                               [r \in Range(SelectedSheet) |-> BinLabel(AgeOf(r)) = ""])

C8_Witness ==
    /\ pc = "done" /\ Len(filtered_df) = 2
    /\ AgeOf(filtered_df[1]) = 15 /\ isna(filtered_df[1].AGE_GROUP)
    /\ AgeOf(filtered_df[2]) = 25
    /\ total_investment = filtered_df[1].AMOUNT.n + filtered_df[2].AMOUNT.n
    /\ TableTotal(age_amount_df, "AMOUNT") = filtered_df[2].AMOUNT.n

\* C9: the amount-by-month table of app.py lists the seven months in the
\* fiscal order JULY .. JANUARY, each with the AMOUNT of the filtered rows of
\* that month.
C9_FiscalOrder ==
    (entry = "app" /\ pc = "done") =>
        /\ [i \in 1..Len(monthly_investment) |-> monthly_investment[i].INVESTMENT_MONTH.s]
              = FiscalOrder
        /\ \A i \in 1..Len(monthly_investment) :
              monthly_investment[i].AMOUNT =
                  Num(AmountOver(filtered_df, InMonth(filtered_df, FiscalOrder[i])))

C9_Witness ==
    /\ entry = "app" /\ pc = "done" /\ Len(filtered_df) = 2
    /\ monthly_investment[1].INVESTMENT_MONTH.s = <<"J","U","L","Y">>
    /\ monthly_investment[1].AMOUNT = Num(250000)
    /\ monthly_investment[7].INVESTMENT_MONTH.s = <<"J","A","N","U","A","R","Y">>
    /\ monthly_investment[7].AMOUNT = Num(500000)

\* a sheet row that cleaning must keep: DOB parses, the month is a fiscal
\* label, UNIT and AMOUNT are numbers, INVESTMENT YEAR and LAND are present
Usable(r) ==
    /\ r.DOB = Str(<<"1","9","9","0","-","0","7","-","0","4">>)
    /\ r.INVESTMENT_MONTH = January
    /\ r.UNIT = Num(2)
    /\ r.AMOUNT = Str(<<"2","5","0">>)
    /\ r.INVESTMENT_YEAR # NaN
    /\ r.LAND # NaN

\* C10: every cleaned record has a value in the six source columns and in AGE,
\* and a row is kept exactly when its DOB parses, its month is a fiscal label,
\* UNIT and AMOUNT coerce to numbers and INVESTMENT YEAR and LAND are present.
C10_Completeness ==
    Cleaned =>
        /\ \A i \in 1..Len(df) :
              \A c \in {"DOB", "INVESTMENT_YEAR", "INVESTMENT_MONTH", "LAND", "UNIT",
                        "AMOUNT", "AGE"} : df[i][c].t # "nan"
        /\ Len(df) = Len(SelectSeq(sheet, Usable))
        /\ \A i \in 1..Len(df) :
              /\ df[i].DOB = Date(1990, 7, 4) /\ df[i].AGE = Num(35)
              /\ df[i].UNIT = Num(2) /\ df[i].AMOUNT = Num(250)

C10_Witness ==
    /\ Cleaned /\ Len(sheet) = 1 /\ df = <<>>
    /\ sheet[1].DOB = Str(<<"1","9","9","0","-","0","7","-","0","4">>)
    /\ sheet[1].INVESTMENT_MONTH = January
    /\ sheet[1].UNIT = Num(2) /\ sheet[1].AMOUNT = Str(<<"2","5","0">>)
    /\ sheet[1].LAND = Commercial /\ sheet[1].INVESTMENT_YEAR = NaN

====
